---- MODULE Spec2Model ----
(***************************************************************************)
(* A model of scripts/compress_images.py: main, process_directory,         *)
(* clear_output, copy_through and the adaptive loop of compress_image.     *)
(*                                                                         *)
(* The file system is a function from file paths to file contents plus a   *)
(* set of directories.  A path is a record [dir, stem, ext]; a content is  *)
(* a record [id, fmt, w, h, quality, size].  The image codec is an         *)
(* external collaborator: the size of an encoding is chosen freely the     *)
(* first time an (image, format, quality, dimensions) combination is       *)
(* encoded and is remembered in memo, so the encoder is arbitrary but      *)
(* deterministic.  The order in which the OS lists the source files (scan) *)
(* is arbitrary too, and the same every time an unchanged tree is listed.  *)
(***************************************************************************)
EXTENDS Integers, Sequences, FiniteSets, TLC

VARIABLES
    fs,           \* file path -> content, for every file that exists
    dirs,         \* the directories that exist
    targets,      \* main's list of (src_dir, out_dir) pairs
    scan,         \* the order in which the OS enumerates the source files
    memo,         \* encoder results so far: key -> size in bytes
    run,          \* number of the current execution of the script
    prev,         \* the file system as it was when the current execution began
    ti,           \* main: index of the current target
    pc,           \* "main", "walk", "loop", "ret", "exit" or "raised"
    visited,      \* process_directory: files the traversal has yielded
    writes,       \* process_directory: the writes so far, [dst, src]
    decoded,      \* process_directory: files handed to compress_image
    src,          \* compress_image: parameter src
    dst,          \* compress_image: local dst
    w,            \* compress_image: local w (width of the decoded source)
    h,            \* compress_image: local h
    fmt,          \* compress_image: local fmt
    quality,      \* compress_image: local quality
    current_img   \* compress_image: size of current_img, [w, h]

vars == <<fs, dirs, targets, scan, memo, run, prev, ti, pc, visited, writes,
          decoded, src, dst, w, h, fmt, quality, current_img>>

----------------------------------------------------------------------------
(* Program constants *)

MAX_DIM == 1600
JPEG_QUALITY == 82
MIN_JPEG_QUALITY == 45
SIZE_LIMIT == 500 * 1024
\* SCALE_STEP = 0.9 as a fraction
SCALE_STEP_NUM == 9
SCALE_STEP_DEN == 10
\* quality * 0.85 as a fraction
QUALITY_STEP_NUM == 85
QUALITY_STEP_DEN == 100
MIN_DIM == 640

ROOT == <<>>
SRC_DIR == ROOT \o <<"images", "original">>
OUT_DIR == ROOT \o <<"images", "optimized">>
PROJECTS_SRC_DIR == ROOT \o <<"projects", "uncompressed-media">>
PROJECTS_OUT_DIR == ROOT \o <<"projects", "media">>

----------------------------------------------------------------------------
(* Bounds of the model *)

\* executions of the script in a row
MaxRuns == 2
\* source files under the first target
MaxFiles == 2
\* the grid of image sides tried by SpecImage: DimStep * (1 .. MaxDimSteps)
DimStep == 400
MaxDimSteps == 10

----------------------------------------------------------------------------
(* Paths (pathlib) *)

Max(a, b) == IF a >= b THEN a ELSE b

Path(d, s, e) == [dir |-> d, stem |-> s, ext |-> e]

NoPath == Path(<<>>, "", "")

IsPrefix(d, e) == Len(d) <= Len(e) /\ SubSeq(e, 1, Len(d)) = d

Prefixes(d) == {SubSeq(d, 1, n) : n \in 0..Len(d)}

\* str.lower() on the suffixes that occur
Lower(s) ==
    CASE s = ".PNG" -> ".png"
      [] s = ".JPG" -> ".jpg"
      [] s = ".JPEG" -> ".jpeg"
      [] s = ".SVG" -> ".svg"
      [] OTHER -> s

\* PurePath.is_relative_to(other), for a file p and a directory d
IsRelativeTo(p, d) == IsPrefix(d, p.dir)

\* PurePath.relative_to(other)
RelativeTo(p, d) == [p EXCEPT !.dir = SubSeq(p.dir, Len(d) + 1, Len(p.dir))]

\* out_dir / rel
Join(d, rel) == [rel EXCEPT !.dir = d \o rel.dir]

\* PurePath.with_suffix(suffix)
WithSuffix(p, s) == [p EXCEPT !.ext = s]

\* Path.mkdir(parents=True, exist_ok=True)
Mkdir(ds, d) == ds \cup Prefixes(d)

\* the files below directory d (Path.rglob("*") restricted to files)
Under(files, d) == {p \in DOMAIN files : IsRelativeTo(p, d)}

\* Path.write_bytes / shutil.copy2: the file system with p holding c
WriteFile(files, p, c) ==
    [q \in DOMAIN files \cup {p} |-> IF q = p THEN c ELSE files[q]]

----------------------------------------------------------------------------
(* File contents and the codec (Pillow) *)

RasterSuffixes == {".png", ".jpg", ".jpeg"}

\* the bytes of a file that is no image
Raw(id) == [id |-> id, fmt |-> "RAW", w |-> 0, h |-> 0, quality |-> 0, size |-> 0]

\* the bytes of a source image: its own encoding and its size in pixels
Image(id, f, width, height) ==
    [id |-> id, fmt |-> f, w |-> width, h |-> height, quality |-> 0, size |-> 0]

Size(width, height) == [w |-> width, h |-> height]

NoSize == Size(0, 0)

Longest(img) == Max(img.w, img.h)

\* int(x * scale) with scale = MAX_DIM / m in binary64: the exact floor, or one
\* less when the quotient is an integer and the rounded product lands below it
ScaledSide(x, m) ==
    LET q == (x * MAX_DIM) \div m
    IN  IF (x * MAX_DIM) % m = 0 /\ q >= 1 THEN {q, q - 1} ELSE {q}

\* an initial downscale whose scale is taken from the shortest side
InitialSizesByShortest(width, height) ==
    LET m == IF width <= height THEN width ELSE height
    IN  IF m > MAX_DIM
        THEN {Size(a, b) : a \in ScaledSide(width, m), b \in ScaledSide(height, m)}
        ELSE {Size(width, height)}

\* the sizes img may have after "scale = min(1.0, ...); if scale < 1.0: resize"
InitialSizes(width, height) ==
    LET m == Max(width, height)
    IN  IF m > MAX_DIM
        THEN {Size(a, b) : a \in ScaledSide(width, m), b \in ScaledSide(height, m)}
        ELSE {Size(width, height)}

\* Image.resize raises ValueError("height and width must be > 0") otherwise
ResizeOk(img) == img.w >= 1 /\ img.h >= 1

\* img.format once img is the local: resize() returns an image without format
\* (so does convert(), which only images of mode P or RGBA, never JPEG, get)
FormatOf(content, resized) == IF resized THEN "None" ELSE content.fmt

\* dst.with_suffix(".jpg") if img.format == "JPEG" or src.suffix.lower() in [...]
StartDst(s, d, imgformat) ==
    IF imgformat = "JPEG" \/ Lower(s.ext) \in {".jpg", ".jpeg"}
    THEN WithSuffix(d, ".jpg")
    ELSE d

\* fmt = "JPEG" if dst.suffix.lower() in [".jpg", ".jpeg"] else "PNG"
StartFmt(d) == IF Lower(d.ext) \in {".jpg", ".jpeg"} THEN "JPEG" ELSE "PNG"

\* what the encoder is asked for: quality reaches only the JPEG encoder
EncodeKey(id, f, q, img) ==
    [id |-> id, fmt |-> f, quality |-> IF f = "JPEG" THEN q ELSE 0,
     w |-> img.w, h |-> img.h]

\* the sizes an encoding may have: just within or just above the ceiling
EncodedSizes == {SIZE_LIMIT, SIZE_LIMIT + 1}

\* current_img.save(buffer, ...); size = buffer.tell()
Save(key) == IF key \in DOMAIN memo THEN {memo[key]} ELSE EncodedSizes

Remember(key, size) ==
    [k \in DOMAIN memo \cup {key} |-> IF k = key THEN size ELSE memo[k]]

\* buffer.getvalue()
Buffer(key, size) ==
    [id |-> key.id, fmt |-> key.fmt, w |-> key.w, h |-> key.h,
     quality |-> key.quality, size |-> size]

\* a ceiling test that is off by one byte
FitsOffByOne(size) == size <= SIZE_LIMIT + 1

\* size <= SIZE_LIMIT
Fits(size) == size <= SIZE_LIMIT

\* fmt == "JPEG" and quality > MIN_JPEG_QUALITY
CanLowerQuality(f, q) == f = "JPEG" /\ q > MIN_JPEG_QUALITY

\* a quality step that forgets the clamp to the floor
LowerQualityUnclamped(q) == (q * QUALITY_STEP_NUM) \div QUALITY_STEP_DEN

\* max(MIN_JPEG_QUALITY, int(quality * 0.85))
LowerQuality(q) == Max(MIN_JPEG_QUALITY, (q * QUALITY_STEP_NUM) \div QUALITY_STEP_DEN)

\* max(new_w, new_h) <= MIN_DIM
AtFloor(img) == Longest(img) <= MIN_DIM

\* (int(new_w * SCALE_STEP), int(new_h * SCALE_STEP))
Downscale(img) ==
    Size((img.w * SCALE_STEP_NUM) \div SCALE_STEP_DEN,
         (img.h * SCALE_STEP_NUM) \div SCALE_STEP_DEN)

----------------------------------------------------------------------------
(* compress_image *)

LoopVars == <<src, dst, w, h, fmt, quality, current_img>>
DirVars == <<targets, scan, run, prev, ti, visited>>

\* lines 38-51: open and decode src, downscale once, choose dst, fmt, quality
CompressImageBegin(s, d) ==
    /\ dirs' = Mkdir(dirs, d.dir)
    /\ decoded' = decoded \cup {s}
    /\ src' = s
    /\ w' = fs[s].w
    /\ h' = fs[s].h
    /\ \E img \in InitialSizes(fs[s].w, fs[s].h) :
         LET resized == Max(fs[s].w, fs[s].h) > MAX_DIM
             d0 == StartDst(s, d, FormatOf(fs[s], resized))
         IN  IF ResizeOk(img)
             THEN /\ dst' = d0
                  /\ fmt' = StartFmt(d0)
                  /\ quality' = JPEG_QUALITY
                  /\ current_img' = img
                  /\ pc' = "loop"
             ELSE /\ pc' = "raised"
                  /\ UNCHANGED <<dst, fmt, quality, current_img>>
    /\ UNCHANGED <<fs, memo, writes>>

CurrentKey == EncodeKey(fs[src].id, fmt, quality, current_img)

\* lines 53-62: the encoding fits: write it and leave the loop
LoopCommit ==
    /\ pc = "loop"
    /\ \E size \in Save(CurrentKey) :
         /\ Fits(size)
         /\ memo' = Remember(CurrentKey, size)
         /\ fs' = WriteFile(fs, dst, Buffer(CurrentKey, size))
    /\ writes' = writes \cup {[dst |-> dst, src |-> src]}
    /\ pc' = "ret"
    /\ UNCHANGED <<dirs, decoded, DirVars, LoopVars>>

\* a switch to JPEG that first writes the rejected PNG encoding
LoopSwitchToJpegWritesPng ==
    /\ pc = "loop"
    /\ \E size \in Save(CurrentKey) :
         /\ ~Fits(size)
         /\ memo' = Remember(CurrentKey, size)
         /\ fs' = WriteFile(fs, dst, Buffer(CurrentKey, size))
    /\ fmt = "PNG"
    /\ fmt' = "JPEG"
    /\ dst' = WithSuffix(dst, ".jpg")
    /\ quality' = JPEG_QUALITY
    /\ writes' = writes \cup {[dst |-> dst, src |-> src]}
    /\ UNCHANGED <<dirs, decoded, DirVars, pc, src, w, h, current_img>>

\* a switch to JPEG that leaves dst as it was
LoopSwitchToJpegKeepsDst ==
    /\ pc = "loop"
    /\ \E size \in Save(CurrentKey) :
         /\ ~Fits(size)
         /\ memo' = Remember(CurrentKey, size)
    /\ fmt = "PNG"
    /\ fmt' = "JPEG"
    /\ quality' = JPEG_QUALITY
    /\ UNCHANGED <<fs, dirs, writes, decoded, DirVars, pc, src, dst, w, h, current_img>>

\* lines 65-69: an oversized PNG: switch to JPEG
LoopSwitchToJpeg ==
    /\ pc = "loop"
    /\ \E size \in Save(CurrentKey) :
         /\ ~Fits(size)
         /\ memo' = Remember(CurrentKey, size)
    /\ fmt = "PNG"
    /\ fmt' = "JPEG"
    /\ dst' = WithSuffix(dst, ".jpg")
    /\ quality' = JPEG_QUALITY
    /\ UNCHANGED <<fs, dirs, writes, decoded, DirVars, pc, src, w, h, current_img>>

\* lines 70-71: an oversized JPEG above the quality floor: lower the quality
LoopLowerQuality ==
    /\ pc = "loop"
    /\ \E size \in Save(CurrentKey) :
         /\ ~Fits(size)
         /\ memo' = Remember(CurrentKey, size)
    /\ fmt # "PNG"
    /\ CanLowerQuality(fmt, quality)
    /\ quality' = LowerQuality(quality)
    /\ UNCHANGED <<fs, dirs, writes, decoded, DirVars, pc, src, dst, w, h, fmt,
                   current_img>>

\* lines 72-77: oversized at the floors: write the buffer as it is
LoopBestEffort ==
    /\ pc = "loop"
    /\ \E size \in Save(CurrentKey) :
         /\ ~Fits(size)
         /\ memo' = Remember(CurrentKey, size)
         /\ fs' = WriteFile(fs, dst, Buffer(CurrentKey, size))
    /\ fmt # "PNG"
    /\ ~CanLowerQuality(fmt, quality)
    /\ AtFloor(current_img)
    /\ writes' = writes \cup {[dst |-> dst, src |-> src]}
    /\ pc' = "ret"
    /\ UNCHANGED <<dirs, decoded, DirVars, LoopVars>>

\* lines 72-80: oversized at the quality floor: shrink both sides
LoopDownscale ==
    /\ pc = "loop"
    /\ \E size \in Save(CurrentKey) :
         /\ ~Fits(size)
         /\ memo' = Remember(CurrentKey, size)
    /\ fmt # "PNG"
    /\ ~CanLowerQuality(fmt, quality)
    /\ ~AtFloor(current_img)
    /\ IF ResizeOk(Downscale(current_img))
       THEN current_img' = Downscale(current_img) /\ pc' = pc
       ELSE current_img' = current_img /\ pc' = "raised"
    /\ UNCHANGED <<fs, dirs, writes, decoded, DirVars, src, dst, w, h, fmt, quality>>

\* compress_image returns to the loop of process_directory
CompressImageReturn ==
    /\ pc = "ret"
    /\ pc' = "walk"
    /\ src' = NoPath
    /\ dst' = NoPath
    /\ w' = 0
    /\ h' = 0
    /\ fmt' = ""
    /\ quality' = 0
    /\ current_img' = NoSize
    /\ UNCHANGED <<fs, dirs, memo, writes, decoded, DirVars>>

----------------------------------------------------------------------------
(* copy_through, clear_output, process_directory, main *)

src_dir == targets[ti].src_dir
out_dir == targets[ti].out_dir

\* a clear_output that empties the parent of out_dir
ClearOutputParent(files, ds, out) ==
    IF out \notin ds
    THEN files
    ELSE [p \in DOMAIN files \ Under(files, SubSeq(out, 1, Len(out) - 1)) |-> files[p]]

\* a clear_output that globs instead of rglobs: only the files directly in out_dir
ClearOutputTopLevel(files, ds, out) ==
    IF out \notin ds
    THEN files
    ELSE [p \in {q \in DOMAIN files : q.dir # out} |-> files[p]]

\* a clear_output that leaves its loop after the first unlink
ClearOutputFirstOnly(files, ds, out) ==
    IF out \notin ds \/ Under(files, out) = {}
    THEN files
    ELSE [p \in DOMAIN files \ {CHOOSE q \in Under(files, out) : TRUE} |-> files[p]]

\* clear_output: unlink every file below out_dir, if out_dir exists
ClearOutput(files, ds, out) ==
    IF out \notin ds
    THEN files
    ELSE [p \in DOMAIN files \ Under(files, out) |-> files[p]]

\* a routing test that forgets .lower()
IsRasterCaseSensitive(p) == p.ext \in RasterSuffixes

\* ext in {".png", ".jpg", ".jpeg"}
IsRaster(p) == Lower(p.ext) \in RasterSuffixes

\* a destination that keeps only the file name: out_dir / src.name
DstOfFlat(p, sdir, odir) == [p EXCEPT !.dir = odir]

\* dst = out_dir / src.relative_to(src_dir)
DstOf(p, sdir, odir) == Join(odir, RelativeTo(p, sdir))

\* the files below src_dir the traversal has not yielded yet
Unvisited == {p \in Under(fs, src_dir) : p \notin visited}

\* the source files still to process, and the one the OS lists first
Pending == {p \in Unvisited : ~IsRelativeTo(p, out_dir)}
NextInScan ==
    LET i == CHOOSE i \in 1..Len(scan) :
                 /\ scan[i] \in Pending
                 /\ \A j \in 1..(i - 1) : scan[j] \notin Pending
    IN  scan[i]

\* a process_directory that clears the destination before it looks at the source
ProcessDirectoryClearsThenSkips ==
    /\ pc = "main"
    /\ ti <= Len(targets)
    /\ src_dir \notin dirs
    /\ fs' = ClearOutput(fs, dirs, out_dir)
    /\ ti' = ti + 1
    /\ UNCHANGED <<dirs, targets, scan, memo, run, prev, pc, visited, writes,
                   decoded, LoopVars>>

\* lines 94-96: the source root is missing: print a notice and return
ProcessDirectorySkip ==
    /\ pc = "main"
    /\ ti <= Len(targets)
    /\ src_dir \notin dirs
    /\ ti' = ti + 1
    /\ UNCHANGED <<fs, dirs, targets, scan, memo, run, prev, pc, visited, writes,
                   decoded, LoopVars>>

\* lines 97-98: clear_output(out_dir); out_dir.mkdir(...); start the traversal
ProcessDirectoryStart ==
    /\ pc = "main"
    /\ ti <= Len(targets)
    /\ src_dir \in dirs
    /\ fs' = ClearOutput(fs, dirs, out_dir)
    /\ dirs' = Mkdir(dirs, out_dir)
    /\ visited' = {}
    /\ writes' = {}
    /\ decoded' = {}
    /\ pc' = "walk"
    /\ UNCHANGED <<targets, scan, memo, run, prev, ti, LoopVars>>

\* a traversal without the guard of lines 102-108: a file below out_dir is
\* processed like any other
WalkSkipProcesses ==
    /\ pc = "walk"
    /\ \E f \in Unvisited :
         /\ IsRelativeTo(f, out_dir)
         /\ visited' = visited \cup {f}
         /\ IF Lower(f.ext) \in RasterSuffixes
            THEN /\ CompressImageBegin(f, Join(out_dir, RelativeTo(f, src_dir)))
                 /\ UNCHANGED <<targets, scan, run, prev, ti>>
            ELSE /\ dirs' = Mkdir(dirs, Join(out_dir, RelativeTo(f, src_dir)).dir)
                 /\ fs' = WriteFile(fs, Join(out_dir, RelativeTo(f, src_dir)), fs[f])
                 /\ writes' = writes \cup
                        {[dst |-> Join(out_dir, RelativeTo(f, src_dir)), src |-> f]}
                 /\ UNCHANGED <<targets, scan, memo, run, prev, ti, pc, decoded,
                                LoopVars>>

\* lines 99-104: the traversal yields a file below out_dir: skip it
WalkSkip ==
    /\ pc = "walk"
    /\ \E f \in Unvisited :
         /\ IsRelativeTo(f, out_dir)
         /\ visited' = visited \cup {f}
    /\ UNCHANGED <<fs, dirs, targets, scan, memo, run, prev, ti, pc, writes,
                   decoded, LoopVars>>

\* lines 99-113: the traversal yields a raster file: compress_image(src, dst)
WalkCompress ==
    /\ pc = "walk"
    /\ Pending # {}
    /\ IsRaster(NextInScan)
    /\ visited' = visited \cup {NextInScan}
    /\ CompressImageBegin(NextInScan, DstOf(NextInScan, src_dir, out_dir))
    /\ UNCHANGED <<targets, scan, run, prev, ti>>

\* lines 99-115 and 82-84: any other file: copy_through(src, dst)
WalkCopy ==
    /\ pc = "walk"
    /\ Pending # {}
    /\ ~IsRaster(NextInScan)
    /\ visited' = visited \cup {NextInScan}
    /\ LET d == DstOf(NextInScan, src_dir, out_dir)
       IN  /\ dirs' = Mkdir(dirs, d.dir)
           /\ fs' = WriteFile(fs, d, fs[NextInScan])
           /\ writes' = writes \cup {[dst |-> d, src |-> NextInScan]}
    /\ UNCHANGED <<targets, scan, memo, run, prev, ti, pc, decoded, LoopVars>>

\* the traversal is exhausted (files written below out_dir meanwhile may or may
\* not have been yielded)
Finished == pc = "walk" /\ Pending = {}

\* line 116: print the summary and return to main's loop
ProcessDirectoryEnd ==
    /\ Finished
    /\ pc' = "main"
    /\ ti' = ti + 1
    /\ UNCHANGED <<fs, dirs, targets, scan, memo, run, prev, visited, writes,
                   decoded, LoopVars>>

\* lines 125-126: main's loop is over
MainReturn ==
    /\ pc = "main"
    /\ ti > Len(targets)
    /\ pc' = "exit"
    /\ UNCHANGED <<fs, dirs, targets, scan, memo, run, prev, ti, visited, writes,
                   decoded, LoopVars>>

\* the script is run again on the tree it left
Rerun ==
    /\ pc = "exit"
    /\ run < MaxRuns
    /\ run' = run + 1
    /\ prev' = fs
    /\ ti' = 1
    /\ pc' = "main"
    /\ UNCHANGED <<fs, dirs, targets, scan, memo, visited, writes, decoded,
                   LoopVars>>

----------------------------------------------------------------------------
(* Initial states *)

\* lines 120-123
MainTargets ==
    << [src_dir |-> SRC_DIR, out_dir |-> OUT_DIR],
       [src_dir |-> PROJECTS_SRC_DIR, out_dir |-> PROJECTS_OUT_DIR] >>

\* process_directory called with a destination inside the source
NestedTargets == << [src_dir |-> ROOT \o <<"images">>, out_dir |-> OUT_DIR] >>

\* the files a source tree may hold, relative to its root
RelFiles ==
    { Path(<<>>, "a", ".jpg"), Path(<<>>, "a", ".jpeg"), Path(<<>>, "a", ".PNG"),
      Path(<<"icons">>, "logo", ".svg") }

IdOf(rel) ==
    CASE rel.ext = ".jpg" -> 1
      [] rel.ext = ".jpeg" -> 2
      [] rel.ext = ".PNG" -> 3
      [] OTHER -> 4

\* the contents a file of the tree may hold: a JPEG at the dimension floor, a
\* one-pixel-high JPEG strip, an image above the floor named .PNG that is a PNG or
\* in truth a JPEG, and a file that is no image
Contents(rel) ==
    CASE rel.ext = ".jpg" -> {Image(IdOf(rel), "JPEG", 600, 400)}
      [] rel.ext = ".jpeg" -> {Image(IdOf(rel), "JPEG", 650, 1)}
      [] rel.ext = ".PNG" -> {Image(IdOf(rel), f, 650, 400) : f \in {"PNG", "JPEG"}}
      [] OTHER -> {Raw(IdOf(rel))}
AllContents == UNION {Contents(rel) : rel \in RelFiles}

\* files left below a destination root by an earlier state of the source
StaleFiles(out) ==
    { Path(out, "a", ".jpg"), Path(out \o <<"icons">>, "gone", ".svg") }
StaleContent(p) ==
    IF IsRaster(p) THEN [Image(90, "JPEG", 300, 200) EXCEPT !.quality = JPEG_QUALITY,
                                                            !.size = 1000]
                   ELSE Raw(91)

ProjectFile == Path(PROJECTS_SRC_DIR, "diagram", ".svg")

Perms(S) ==
    {s \in [1..Cardinality(S) -> S] : \A i, j \in 1..Cardinality(S) : s[i] = s[j] => i = j}

Merge(f, g) == [p \in DOMAIN f \cup DOMAIN g |-> IF p \in DOMAIN f THEN f[p] ELSE g[p]]

DirsOf(files) == UNION {Prefixes(p.dir) : p \in DOMAIN files}

Idle ==
    /\ memo = << >>
    /\ run = 1
    /\ ti = 1
    /\ visited = {}
    /\ writes = {}
    /\ decoded = {}
    /\ src = NoPath
    /\ dst = NoPath
    /\ w = 0
    /\ h = 0
    /\ fmt = ""
    /\ quality = 0
    /\ current_img = NoSize

\* the script is about to run on some source trees and some old outputs
Init ==
    /\ Idle
    /\ pc = "main"
    /\ targets \in {MainTargets, NestedTargets}
    /\ \E F \in SUBSET RelFiles, stale \in BOOLEAN, sroot \in BOOLEAN, proj \in BOOLEAN :
         /\ Cardinality(F) <= MaxFiles
         /\ F # {} => sroot
         /\ Len(targets) = 1 => proj = FALSE
         /\ \E v \in [F -> AllContents], order \in Perms(F) :
              LET S == targets[1].src_dir
                  sources == [p \in {Join(S, r) : r \in F} |-> v[RelativeTo(p, S)]]
                  old1 == IF stale
                          THEN [p \in StaleFiles(targets[1].out_dir) |-> StaleContent(p)]
                          ELSE << >>
                  old2 == IF Len(targets) > 1
                          THEN [p \in StaleFiles(targets[2].out_dir) |-> StaleContent(p)]
                          ELSE << >>
                  proj2 == IF proj THEN [p \in {ProjectFile} |-> Raw(5)] ELSE << >>
              IN  /\ \A r \in F : v[r] \in Contents(r)
                  /\ fs = Merge(Merge(sources, old1), Merge(old2, proj2))
                  /\ dirs = DirsOf(fs) \cup (IF sroot THEN Prefixes(S) ELSE {})
                  /\ scan = [i \in 1..Len(order) |-> Join(S, order[i])]
                              \o (IF proj THEN <<ProjectFile>> ELSE << >>)
    /\ prev = fs

Next ==
    \/ ProcessDirectorySkip
    \/ ProcessDirectoryStart
    \/ WalkSkip
    \/ WalkCompress
    \/ WalkCopy
    \/ LoopCommit
    \/ LoopSwitchToJpeg
    \/ LoopLowerQuality
    \/ LoopBestEffort
    \/ LoopDownscale
    \/ CompressImageReturn
    \/ ProcessDirectoryEnd
    \/ MainReturn
    \/ Rerun

Spec == Init /\ [][Next]_vars

----------------------------------------------------------------------------
(* compress_image on its own: one raster file of any size in an empty target *)

SpecialSides ==
    {1, 2, MIN_DIM - 1, MIN_DIM, MIN_DIM + 1, 711, 712, MAX_DIM - 1, MAX_DIM,
     MAX_DIM + 1, 1790, 2 * MAX_DIM}
Sides == SpecialSides \cup {DimStep * k : k \in 1..MaxDimSteps}

InitImage ==
    /\ Idle
    /\ pc = "walk"
    /\ targets = MainTargets
    /\ \E e \in {".jpg", ".PNG"}, f \in {"JPEG", "PNG"}, a \in Sides, b \in Sides :
         /\ fs = [p \in {Path(SRC_DIR, "a", e)} |-> Image(1, f, a, b)]
         /\ scan = <<Path(SRC_DIR, "a", e)>>
    /\ dirs = Prefixes(SRC_DIR) \cup Prefixes(OUT_DIR)
    /\ prev = fs

NextImage ==
    \/ WalkCompress
    \/ LoopCommit
    \/ LoopSwitchToJpeg
    \/ LoopLowerQuality
    \/ LoopBestEffort
    \/ LoopDownscale
    \/ CompressImageReturn

SpecImage == InitImage /\ [][NextImage]_vars

----------------------------------------------------------------------------
(* Properties of compress_image, checked under SpecImage *)

\* compress_image has just written fs[dst] and is about to return
Wrote == pc = "ret"

\* C1: the image compress_image writes has a longest side of at least MIN_DIM,
\* unless the longest side of the input was already below MIN_DIM
C1_WrittenSideAtLeastMinDim ==
    Wrote => (Longest(fs[dst]) >= MIN_DIM \/ Max(w, h) < MIN_DIM)

\* C2: the bytes compress_image writes are at most SIZE_LIMIT long, unless they
\* were written as JPEG at MIN_JPEG_QUALITY with a longest side of at most MIN_DIM
C2_SizeWithinLimitUnlessAtFloor ==
    Wrote =>
        \/ fs[dst].size <= SIZE_LIMIT
        \/ /\ fmt = "JPEG"
           /\ fs[dst].fmt = "JPEG"
           /\ quality = MIN_JPEG_QUALITY
           /\ fs[dst].quality = MIN_JPEG_QUALITY
           /\ Longest(current_img) <= MIN_DIM
           /\ Longest(fs[dst]) <= MIN_DIM

\* an oversized best-effort result has been written
C2_Witness == Wrote /\ fs[dst].size > SIZE_LIMIT

\* C3: the adaptive loop is left only by the commit write or the best-effort write
C3_LoopEndsInWrite == [][pc = "loop" => pc' \in {"loop", "ret"}]_vars

\* C4: the image compress_image writes has a longest side of at most MAX_DIM:
\* an input above MAX_DIM enters the loop with its longest side scaled to MAX_DIM
\* (or one pixel less, by rounding), an input within MAX_DIM enters it as it is,
\* and no side ever exceeds what it was
C4_WrittenSideAtMostMaxDim ==
    /\ Wrote => Longest(fs[dst]) <= MAX_DIM
    /\ pc \in {"loop", "ret"} =>
         /\ Longest(current_img) <= MAX_DIM
         /\ current_img.w <= w
         /\ current_img.h <= h
    /\ (pc = "loop" /\ memo = << >>) =>
         IF Max(w, h) > MAX_DIM
         THEN Longest(current_img) \in {MAX_DIM - 1, MAX_DIM}
         ELSE current_img = Size(w, h)

\* an input above MAX_DIM has been written with a longest side of MAX_DIM
C4_Witness == Wrote /\ Max(w, h) > MAX_DIM /\ Longest(fs[dst]) = MAX_DIM

----------------------------------------------------------------------------
(* Properties of process_directory and main, checked under Spec *)

\* the source files of the current target: below src_dir and not below out_dir
Sources == {p \in Under(fs, src_dir) : ~IsRelativeTo(p, out_dir)}

\* the path of p below out_dir that mirrors its path below src_dir
Mirror(p) == Join(out_dir, RelativeTo(p, src_dir))

HasRasterSuffix(p) == Lower(p.ext) \in {".png", ".jpg", ".jpeg"}

\* C5, as stated: once process_directory has gone through an existing source
\* root, every source file has a file at the same relative path below out_dir
C5_SameRelativePath ==
    Finished => \A p \in Sources : Mirror(p) \in DOMAIN fs

\* C5, amended: every source file has a file below out_dir at the same relative
\* path, except that a .jpg/.jpeg file has it with the suffix .jpg and a .png
\* file has it with its own suffix or with the suffix .jpg
C5_RelativePathUpToJpgSuffix ==
    Finished =>
        \A p \in Sources :
            CASE Lower(p.ext) \in {".jpg", ".jpeg"} ->
                     WithSuffix(Mirror(p), ".jpg") \in DOMAIN fs
              [] Lower(p.ext) = ".png" ->
                     \/ Mirror(p) \in DOMAIN fs
                     \/ WithSuffix(Mirror(p), ".jpg") \in DOMAIN fs
              [] OTHER -> Mirror(p) \in DOMAIN fs

\* a source file in a subdirectory was mirrored and a raster file was written
\* under another suffix
C5_Witness ==
    /\ Finished
    /\ \E p \in Sources : RelativeTo(p, src_dir).dir # <<>> /\ Mirror(p) \in DOMAIN fs
    /\ \E p \in Sources :
         Mirror(p) \notin DOMAIN fs /\ WithSuffix(Mirror(p), ".jpg") \in DOMAIN fs

\* C6: within one run of process_directory no destination path is written more
\* than once: no two source files are written to the same path
C6_EachPathWrittenOnce ==
    \A x, y \in writes : x.dst = y.dst => x.src = y.src

\* C7: while and after process_directory repopulates out_dir, every file below
\* out_dir was written by this run
C7_OnlyFilesOfThisRun ==
    pc \in {"walk", "loop", "ret"} =>
        \A p \in Under(fs, out_dir) : \E x \in writes : x.dst = p

\* a file that was below out_dir before the run is gone after it
C7_Witness ==
    /\ Finished
    /\ writes # {}
    /\ \E p \in Under(prev, out_dir) : p \notin DOMAIN fs

\* C8: only files with a raster suffix are decoded, and once process_directory
\* has gone through the source every raster file was handed to compress_image
\* and every other file was not and has an identical copy at its relative path
C8_RoutingAndIdenticalCopy ==
    /\ \A p \in decoded : HasRasterSuffix(p)
    /\ Finished =>
         \A p \in Sources :
             IF HasRasterSuffix(p)
             THEN p \in decoded
             ELSE /\ p \notin decoded
                  /\ Mirror(p) \in DOMAIN fs
                  /\ fs[Mirror(p)] = fs[p]

\* an .svg was copied and a file with an upper-case raster suffix was decoded
C8_Witness ==
    /\ Finished
    /\ \E p \in Sources : p.ext = ".svg" /\ fs[Mirror(p)] = fs[p]
    /\ \E p \in decoded : p.ext = ".PNG"

\* the files below directory d with their contents
Tree(files, d) == [p \in Under(files, d) |-> files[p]]

\* C9: a target whose source root is missing is skipped in one step that changes
\* no file and no directory and leaves main in its loop at the next target, and
\* the files below its destination root stay as they were when the run began
C9_MissingSourceIsSkipped ==
    /\ [](\A i \in 1..Len(targets) :
            targets[i].src_dir \notin dirs =>
                Tree(fs, targets[i].out_dir) = Tree(prev, targets[i].out_dir))
    /\ [][(pc = "main" /\ ti <= Len(targets) /\ targets[ti].src_dir \notin dirs) =>
            (pc' = "main" /\ ti' = ti + 1 /\ fs' = fs /\ dirs' = dirs)]_vars

\* the first target was skipped, its old outputs are still there, and the
\* second target has been processed
C9_Witness ==
    /\ Finished
    /\ ti = 2
    /\ targets[1].src_dir \notin dirs
    /\ Under(fs, targets[1].out_dir) # {}
    /\ writes # {}

\* C10: when a second execution in a row has ended, the file system is what the
\* first execution left: the same paths with the same bytes
C10_SecondRunChangesNothing ==
    (pc = "exit" /\ run >= 2) => fs = prev

\* a second execution has ended with a recompressed image below the first
\* destination root
C10_Witness ==
    /\ pc = "exit"
    /\ run = 2
    /\ \E p \in Under(fs, targets[1].out_dir) : fs[p].size >= SIZE_LIMIT

----------------------------------------------------------------------------
(* Properties of the adaptive loop, checked under SpecImage *)

\* the writes of the compress_image call in progress
WritesOfCall == {x \in writes : x.src = src}

\* C11: a call of compress_image writes nothing before its loop ends, writes
\* nothing in an iteration that stays in the loop, and has written exactly once
\* when it returns: to dst, the buffer of the last encoding
C11_WritesOnceAtLoopExit ==
    /\ [](pc = "loop" => WritesOfCall = {})
    /\ [](pc = "ret" =>
            /\ WritesOfCall = {[dst |-> dst, src |-> src]}
            /\ fs[dst] = Buffer(CurrentKey, memo[CurrentKey]))
    /\ [][(pc = "walk" \/ (pc = "loop" /\ pc' # "ret")) =>
            (fs' = fs /\ writes' = writes)]_vars

\* compress_image has written after at least one rejected encoding
C11_Witness == Wrote /\ Cardinality(DOMAIN memo) >= 2

\* C12: an in-loop downscale shrinks both sides by 10% and sets quality back to
\* JPEG_QUALITY for the next encoding
C12_DownscaleRestoresQuality ==
    [][(pc = "loop" /\ pc' = "loop" /\ current_img' # current_img) =>
         /\ current_img'.w = (current_img.w * 9) \div 10
         /\ current_img'.h = (current_img.h * 9) \div 10
         /\ quality' = JPEG_QUALITY]_vars

\* C13: the first encoding is JPEG if the source is a JPEG (by its bytes or by
\* its suffix) and PNG otherwise; an oversized PNG is followed by a JPEG
\* encoding at JPEG_QUALITY of the same image; JPEG never turns back into PNG
C13_StartFormatAndSwitch ==
    /\ []((pc = "loop" /\ memo = << >>) =>
            fmt = IF fs[src].fmt = "JPEG" \/ Lower(src.ext) \in {".jpg", ".jpeg"}
                  THEN "JPEG" ELSE "PNG")
    /\ [][(pc = "loop" /\ fmt = "PNG" /\ pc' = "loop") =>
            (fmt' = "JPEG" /\ quality' = JPEG_QUALITY /\ current_img' = current_img)]_vars
    /\ [][(pc = "loop" /\ fmt = "JPEG") => fmt' \in {"JPEG", ""}]_vars

\* C14: quality stays within [MIN_JPEG_QUALITY, JPEG_QUALITY]; the loop shrinks
\* the image only as JPEG at MIN_JPEG_QUALITY; an oversized JPEG above the floor
\* gets quality max(MIN_JPEG_QUALITY, floor(0.85 * quality)) and keeps its size
C14_QualityBeforeDimension ==
    /\ [](pc \in {"loop", "ret"} =>
            (quality >= MIN_JPEG_QUALITY /\ quality <= JPEG_QUALITY))
    /\ [][(pc = "loop" /\ pc' = "loop" /\ current_img' # current_img) =>
            (fmt = "JPEG" /\ quality = MIN_JPEG_QUALITY)]_vars
    /\ [][(pc = "loop" /\ pc' = "loop" /\ fmt = "JPEG" /\ quality > MIN_JPEG_QUALITY) =>
            /\ quality' = Max(MIN_JPEG_QUALITY, (quality * 85) \div 100)
            /\ current_img' = current_img]_vars

\* the loop has lowered quality to the floor and then shrunk the image
C14_Witness ==
    /\ pc = "loop"
    /\ quality = MIN_JPEG_QUALITY
    /\ Max(w, h) <= MAX_DIM
    /\ current_img.w < w

\* C16: while compress_image runs, JPEG goes with a dst ending in .jpg and PNG
\* with a dst that keeps the .png suffix of the source, fmt and the suffix of dst
\* change only together, and the bytes written are encoded as fmt says
C16_SuffixAgreesWithEncoding ==
    /\ [](pc \in {"loop", "ret"} =>
            /\ fmt \in {"JPEG", "PNG"}
            /\ fmt = "JPEG" => dst.ext = ".jpg"
            /\ fmt = "PNG" => (dst.ext = src.ext /\ Lower(dst.ext) = ".png"))
    /\ [](Wrote => fs[dst].fmt = fmt)
    /\ [][(pc = "loop" /\ pc' = "loop") => (fmt' # fmt <=> dst' # dst)]_vars

\* a PNG source has been written as JPEG to a path ending in .jpg
C16_Witness ==
    /\ Wrote
    /\ src.ext = ".PNG"
    /\ fs[src].fmt = "PNG"
    /\ fs[dst].fmt = "JPEG"
    /\ dst.ext = ".jpg"

\* C17: no resize of compress_image, before or inside the loop, asks for a width
\* or a height below 1 (Image.resize raises when it is asked for one)
C17_ResizedSidesPositive == pc # "raised"

----------------------------------------------------------------------------
(* Further properties of process_directory, checked under Spec *)

\* out_dir as a path relative to src_dir, when it lies inside src_dir
OutInSrc == SubSeq(out_dir, Len(src_dir) + 1, Len(out_dir))

\* C15: with out_dir inside src_dir, no file below out_dir is decoded or is the
\* source of a write, and nothing is written below out_dir / (out_dir relative
\* to src_dir)
C15_OutputsAreNeverInputs ==
    (pc \in {"walk", "loop", "ret"} /\ IsPrefix(src_dir, out_dir)) =>
        /\ \A p \in decoded : ~IsRelativeTo(p, out_dir)
        /\ \A x \in writes : ~IsRelativeTo(x.src, out_dir)
        /\ Under(fs, out_dir \o OutInSrc) = {}

\* with out_dir inside src_dir, the traversal has yielded a file written by this
\* run and has gone on to the end
C15_Witness ==
    /\ Finished
    /\ IsPrefix(src_dir, out_dir)
    /\ \E x \in writes : x.dst \in visited

\* C18: a step of process_directory deletes or changes no file outside out_dir
\* and creates files only below out_dir; main changes no file of its own
C18_OnlyDestinationChanges ==
    [][IF ti <= Len(targets)
       THEN /\ \A p \in DOMAIN fs :
                 ~IsRelativeTo(p, out_dir) => (p \in DOMAIN fs' /\ fs'[p] = fs[p])
            /\ \A p \in DOMAIN fs' \ DOMAIN fs : IsRelativeTo(p, out_dir)
       ELSE fs' = fs]_vars

\* old outputs were deleted and new ones written while the source files are as
\* they were when the run began
C18_Witness ==
    /\ Finished
    /\ Sources # {}
    /\ \A p \in Sources : p \in DOMAIN prev /\ prev[p] = fs[p]
    /\ \E p \in Under(prev, out_dir) : p \notin DOMAIN fs
    /\ \E x \in writes : x.dst \notin DOMAIN prev

====
